---- MODULE Spec2Model ----
(***************************************************************************)
(* Model of src/commute_app.py: get_departure_timestamp (the departure     *)
(* time resolver) and calculate_commute_times (the batched Distance Matrix *)
(* query loop).                                                            *)
(*                                                                         *)
(* Conventions.  An Optional value is a sequence of length 0 (None) or 1.  *)
(* A datetime is a record of its fields; the local time zone has a fixed   *)
(* UTC offset, so a calendar day is 86400 seconds.  The HTTP transport     *)
(* (requests.get, response.json) delivers a response that conforms to the  *)
(* Distance Matrix interface: one row per origin of the request, one       *)
(* element per row.  Addresses of the roster do not contain the origin     *)
(* separator "|".                                                          *)
(***************************************************************************)
EXTENDS Integers, Sequences, FiniteSets, TLC

VARIABLES
    students,          \* argument: the roster, a sequence of [name, addr]
    departure_hour,    \* argument: Optional hour
    departure_minute,  \* argument: minute
    departure_date,    \* argument: Optional date (a day number)
    progress_bar,      \* argument: TRUE iff a (truthy) progress observer is supplied
    service,           \* the matrix-query capability the run talks to
    now,               \* the wall clock, datetime.now()
    pc,                \* position of the call: "loop", "sent", "done", "raised",
                       \* and "resolve"/"resolved" for a bare resolver call
    batch_idx,         \* enumerate() index of the next batch of the for loop
    params,            \* the request in flight
    results,           \* the accumulating list of rows
    ts,                \* Optional: last value returned by get_departure_timestamp
    run,               \* 1 for the first invocation, 2 for the repeated one
    firstResult,       \* the table returned by the first invocation
    firstQueries,      \* the requests the first invocation issued
    queries,           \* history: the requests issued by this invocation, in order
    responses,         \* history: the responses received by this invocation
    appended,          \* history: the rows each handled batch contributed
    progress,          \* history: the values passed to progress_bar.progress
    diagnostics,       \* history: the st.error diagnostics of this invocation
    clockReads         \* history: number of datetime.now() reads of this invocation

vars == <<students, departure_hour, departure_minute, departure_date, progress_bar,
          service, now, pc, batch_idx, params, results, ts, run, firstResult,
          firstQueries, queries, responses, appended, progress, diagnostics, clockReads>>

-----------------------------------------------------------------------------
(* Bounds and input domains *)

MaxStudents == 51

None == <<>>
Some(x) == <<x>>

Addresses == {"a1", "a2"}
AddrOf(i) == IF i % 2 = 1 THEN "a1" ELSE "a2"
Roster(n) == [i \in 1..n |-> [name |-> i, addr |-> AddrOf(i)]]

SCHOOL_ADDRESS == "school"
TopErrors == {"REQUEST_DENIED"}
ElemStatuses == {"OK", "NOT_FOUND", "ZERO_RESULTS"}

Hours == 0..23
Minutes == 0..59

Min(a, b) == IF a < b THEN a ELSE b

-----------------------------------------------------------------------------
(* datetime *)

DateTime(d, h, m, s, us) ==
    [day |-> d, hour |-> h, minute |-> m, second |-> s, microsecond |-> us]

\* seconds of a datetime since the epoch (day 0, 00:00:00), without the microseconds
Seconds(dt) == dt.day * 86400 + dt.hour * 3600 + dt.minute * 60 + dt.second

\* dt <= other on datetimes
DtLE(dt, other) ==
    \/ Seconds(dt) < Seconds(other)
    \/ Seconds(dt) = Seconds(other) /\ dt.microsecond <= other.microsecond

\* now.replace(hour=, minute=, second=0, microsecond=0)
Replace(dt, h, m) ==
    [dt EXCEPT !.hour = h, !.minute = m, !.second = 0, !.microsecond = 0]

\* dt + timedelta(days=1)
AddDay(dt) == [dt EXCEPT !.day = @ + 1]

\* f"{n:02d}": the decimal digits of n, zero-padded to two
Fmt02(n) == IF n < 100 THEN <<n \div 10, n % 10>> ELSE <<n \div 100, (n \div 10) % 10, n % 10>>

\* the integer a %H / %M field of strptime reads from its digits
ParseField(ds) == IF Len(ds) = 2 THEN 10 * ds[1] + ds[2] ELSE 100 * ds[1] + 10 * ds[2] + ds[3]

\* datetime.strptime(f"{date} {hour:02d}:{minute:02d}", "%Y-%m-%d %H:%M")
strptime(date, hh, mm) == DateTime(date, ParseField(hh), ParseField(mm), 0, 0)

\* int(dt.timestamp())
Timestamp(dt) == Seconds(dt)

get_departure_timestamp_nofix(hour, minute, date, nowv) ==
    LET dt == IF date # None
              THEN strptime(date[1], Fmt02(hour), Fmt02(minute))
              ELSE Replace(nowv, hour, minute)
    IN  Timestamp(IF DtLE(dt, nowv) THEN AddDay(dt) ELSE dt)

get_departure_timestamp_lt(hour, minute, date, nowv) ==
    IF date # None
    THEN Timestamp(strptime(date[1], Fmt02(hour), Fmt02(minute)))
    ELSE LET dt == Replace(nowv, hour, minute)
         IN  Timestamp(IF DtLE(dt, nowv) /\ dt # nowv THEN AddDay(dt) ELSE dt)

get_departure_timestamp(hour, minute, date, nowv) ==
    IF date # None
    THEN Timestamp(strptime(date[1], Fmt02(hour), Fmt02(minute)))
    ELSE LET dt == Replace(nowv, hour, minute)
         IN  Timestamp(IF DtLE(dt, nowv) THEN AddDay(dt) ELSE dt)

\* whether a call of get_departure_timestamp reads datetime.now()
ReadsClock(date) == date = None

-----------------------------------------------------------------------------
(* calculate_commute_times: the pure parts *)

batch_size == 25

total_batches_floor(studs) == Len(studs) \div batch_size

total_batches(studs) == (Len(studs) + batch_size - 1) \div batch_size

\* s[lo:hi] of Python, 0-based, hi exclusive, clipped to the list
Slice(s, lo, hi) == SubSeq(s, lo + 1, Min(hi, Len(s)))

BatchOf_short(studs, idx) ==
    Slice(studs, idx * batch_size, idx * batch_size + batch_size - 1)

\* the batch of loop index idx: i = idx * batch_size, students[i:i + batch_size]
BatchOf(studs, idx) ==
    Slice(studs, idx * batch_size, idx * batch_size + batch_size)

HasBatch_full(studs, idx) == (idx + 1) * batch_size <= Len(studs)

\* whether range(0, len(students), batch_size) has an element of index idx
HasBatch(studs, idx) == idx * batch_size < Len(studs)

AddressesOf(batch) == [k \in 1..Len(batch) |-> batch[k].addr]

\* "|".join(addresses): the addresses with a separator between neighbours
RECURSIVE Join(_)
Join(addresses) ==
    IF Len(addresses) = 0 THEN <<>>
    ELSE IF Len(addresses) = 1 THEN <<addresses[1]>>
    ELSE <<addresses[1], "|">> \o Join(Tail(addresses))

BuildParams(batch, hour, minute, date, nowv) ==
    [origins        |-> Join(AddressesOf(batch)),
     destinations   |-> SCHOOL_ADDRESS,
     mode           |-> "transit",
     language       |-> "ko",
     key            |-> "api_key",
     departure_time |-> IF hour # None
                        THEN Some(get_departure_timestamp(hour[1], minute, date, nowv))
                        ELSE None]

ErrorText(status) == <<"error: ", status>>

SuccessRow(student, element) ==
    [name         |-> student.name,
     addr         |-> student.addr,
     distance     |-> element.distance.text,
     distance_m   |-> Some(element.distance.value),
     duration     |-> element.duration.text,
     duration_min |-> Some(element.duration.value \div 60)]

FailureRow_zero(student, element) ==
    [name         |-> student.name,
     addr         |-> student.addr,
     distance     |-> ErrorText(element.status),
     distance_m   |-> Some(0),
     duration     |-> ErrorText(element.status),
     duration_min |-> Some(0)]

FailureRow(student, element) ==
    [name         |-> student.name,
     addr         |-> student.addr,
     distance     |-> ErrorText(element.status),
     distance_m   |-> None,
     duration     |-> ErrorText(element.status),
     duration_min |-> None]

RowOf(student, element) ==
    IF element.status = "OK" THEN SuccessRow(student, element)
                             ELSE FailureRow(student, element)

StudentAt_global(studs, idx, j) == <<studs[j], j <= Len(studs)>>

\* student = batch[j] (j counted from 1 here); the second component is FALSE
\* when the index is out of range (IndexError)
StudentAt(studs, idx, j) ==
    LET batch == BatchOf(studs, idx)
    IN  IF j <= Len(batch) THEN <<batch[j], TRUE>> ELSE <<batch[1], FALSE>>

\* the rows loop over data["rows"]: the rows appended, and whether it raised
RECURSIVE ProcessRows(_, _, _, _)
ProcessRows(studs, idx, rows, j) ==
    IF j > Len(rows) THEN [out |-> <<>>, ok |-> TRUE]
    ELSE LET sa == StudentAt(studs, idx, j)
         IN  IF ~sa[2] THEN [out |-> <<>>, ok |-> FALSE]
             ELSE LET rest == ProcessRows(studs, idx, rows, j + 1)
                  IN  [out |-> <<RowOf(sa[1], rows[j].elements[1])>> \o rest.out,
                       ok  |-> rest.ok]

\* (batch_idx + 1) / total_batches as a fraction; FALSE when the division raises
ProgressValue(idx, studs) ==
    [num |-> idx + 1, den |-> total_batches(studs), ok |-> total_batches(studs) # 0]

AfterBatchError_break == "done"

\* where the loop goes after a batch whose top-level status is not "OK": continue
AfterBatchError == "loop"

-----------------------------------------------------------------------------
(* The matrix-query capability *)

\* the origins the service reads from the joined string
RECURSIVE Split(_)
Split(joined) ==
    IF Len(joined) = 0 THEN <<>>
    ELSE IF Len(joined) = 1 THEN <<joined[1]>>
    ELSE IF joined[2] = "|" THEN <<joined[1]>> \o Split(SubSeq(joined, 3, Len(joined)))
    ELSE Split(Tail(joined))

DistanceOf(addr) == IF addr = "a1" THEN [text |-> <<"1.2 km">>, value |-> 1200]
                                   ELSE [text |-> <<"3.4 km">>, value |-> 3400]
DurationOf(addr) == IF addr = "a1" THEN [text |-> <<"1 min">>, value |-> 119]
                                   ELSE [text |-> <<"2 mins">>, value |-> 120]

Element(addr, status) ==
    [status |-> status, distance |-> DistanceOf(addr), duration |-> DurationOf(addr)]

OkResponse(request, em) ==
    LET origins == Split(request.origins)
    IN  [status |-> "OK", error_message |-> "",
         rows |-> [k \in 1..Len(origins) |->
                      [elements |-> <<Element(origins[k], em[origins[k]])>>]]]

ErrorResponse(status) == [status |-> status, error_message |-> "denied", rows |-> <<>>]

\* every response the interface allows for a request
Responses(request) ==
    {ErrorResponse(s) : s \in TopErrors}
        \cup {OkResponse(request, em) : em \in [Addresses -> ElemStatuses]}

\* a deterministic capability: the response is a function of the request (of its
\* departure time and origins)
MockResponse(mock, request) ==
    IF <<request.departure_time, request.origins[1]>> \in mock.down
    THEN ErrorResponse("REQUEST_DENIED")
    ELSE OkResponse(request, mock.elem)

Answers(svc, request) ==
    IF svc.det THEN {MockResponse(svc, request)} ELSE Responses(request)

AnyService == [det |-> FALSE, down |-> {}, elem |-> [a \in Addresses |-> "OK"]]

-----------------------------------------------------------------------------
(* State machine *)

NoParams == [origins |-> <<>>, destinations |-> SCHOOL_ADDRESS, mode |-> "transit",
             language |-> "ko", key |-> "api_key", departure_time |-> None]

ClockInstants == {DateTime(0, 7, 59, 59, 999999), DateTime(0, 8, 0, 0, 0)}

DepartureSpecs ==
    {<<None, 0, None>>, <<Some(8), 0, None>>, <<Some(8), 0, Some(0)>>}

Fresh ==
    /\ pc = "loop"
    /\ batch_idx = 0
    /\ params = NoParams
    /\ results = <<>>
    /\ ts = None
    /\ queries = <<>>
    /\ responses = <<>>
    /\ appended = <<>>
    /\ progress = <<>>
    /\ diagnostics = <<>>
    /\ clockReads = 0

InitArgs ==
    /\ \E n \in 0..MaxStudents : students = Roster(n)
    /\ \E d \in DepartureSpecs :
          /\ departure_hour = d[1]
          /\ departure_minute = d[2]
          /\ departure_date = d[3]
    /\ progress_bar \in BOOLEAN
    /\ now \in ClockInstants
    /\ run = 1
    /\ firstResult = <<>>
    /\ firstQueries = <<>>

Init ==
    /\ InitArgs
    /\ service = AnyService
    /\ Fresh

\* lines 46-63: the loop takes the next batch, builds the request and sends it
Query ==
    /\ pc = "loop"
    /\ HasBatch(students, batch_idx)
    /\ LET batch == BatchOf(students, batch_idx)
           p == BuildParams(batch, departure_hour, departure_minute, departure_date, now)
       IN  /\ params' = p
           /\ queries' = Append(queries, p)
           /\ ts' = IF departure_hour # None THEN p.departure_time ELSE ts
           /\ clockReads' = IF departure_hour # None /\ ReadsClock(departure_date)
                            THEN clockReads + 1 ELSE clockReads
    /\ pc' = "sent"
    /\ UNCHANGED <<students, departure_hour, departure_minute, departure_date,
                   progress_bar, service, now, batch_idx, results, run, firstResult,
                   firstQueries, responses, appended, progress, diagnostics>>

\* lines 63-95: the response arrives and the rest of the loop body runs
Respond ==
    /\ pc = "sent"
    /\ \E data \in Answers(service, params) :
          /\ responses' = Append(responses, data)
          /\ IF data.status # "OK"
             THEN /\ diagnostics' = Append(diagnostics,
                        [status |-> data.status, message |-> data.error_message])
                  /\ results' = results
                  /\ appended' = Append(appended, <<>>)
                  /\ progress' = progress
                  /\ pc' = AfterBatchError
             ELSE LET got == ProcessRows(students, batch_idx, data.rows, 1)
                      pv  == ProgressValue(batch_idx, students)
                  IN  /\ diagnostics' = diagnostics
                      /\ results' = results \o got.out
                      /\ appended' = Append(appended, got.out)
                      /\ progress' = IF got.ok /\ progress_bar /\ pv.ok
                                     THEN Append(progress, pv) ELSE progress
                      /\ pc' = IF got.ok /\ (progress_bar => pv.ok)
                               THEN "loop" ELSE "raised"
    /\ batch_idx' = batch_idx + 1
    /\ UNCHANGED <<students, departure_hour, departure_minute, departure_date,
                   progress_bar, service, now, params, ts, run, firstResult,
                   firstQueries, queries, clockReads>>

\* line 97: the loop is exhausted and the table is returned
Return ==
    /\ pc = "loop"
    /\ ~HasBatch(students, batch_idx)
    /\ pc' = "done"
    /\ UNCHANGED <<students, departure_hour, departure_minute, departure_date,
                   progress_bar, service, now, batch_idx, params, results, ts, run,
                   firstResult, firstQueries, queries, responses, appended, progress,
                   diagnostics, clockReads>>

\* the wall clock advances
Tick ==
    /\ \E t \in ClockInstants :
          /\ DtLE(now, t)
          /\ t # now
          /\ now' = t
    /\ UNCHANGED <<students, departure_hour, departure_minute, departure_date,
                   progress_bar, service, pc, batch_idx, params, results, ts, run,
                   firstResult, firstQueries, queries, responses, appended, progress,
                   diagnostics, clockReads>>

Next == Query \/ Respond \/ Return \/ Tick

Spec == Init /\ [][Next]_vars

-----------------------------------------------------------------------------
(* Two invocations with identical arguments against a deterministic capability *)

T0 == 8 * 3600
T1 == 86400 + 8 * 3600

DownSets ==
    {{},
     {<<Some(T1), "a1">>, <<Some(T1), "a2">>},
     {<<Some(T0), "a2">>},
     {<<None, "a1">>, <<Some(T0), "a1">>}}

DetServices ==
    {[det |-> TRUE, down |-> D, elem |-> em] :
        D \in DownSets, em \in [Addresses -> ElemStatuses]}

DetRosterSizes == {0, 1, batch_size, batch_size + 1, MaxStudents}

InitDet ==
    /\ InitArgs
    /\ Len(students) \in DetRosterSizes
    /\ service \in DetServices
    /\ Fresh

\* the caller invokes calculate_commute_times again with the same arguments
Reinvoke ==
    /\ pc = "done"
    /\ run = 1
    /\ run' = 2
    /\ firstResult' = results
    /\ firstQueries' = queries
    /\ pc' = "loop"
    /\ batch_idx' = 0
    /\ params' = NoParams
    /\ results' = <<>>
    /\ ts' = None
    /\ queries' = <<>>
    /\ responses' = <<>>
    /\ appended' = <<>>
    /\ progress' = <<>>
    /\ diagnostics' = <<>>
    /\ clockReads' = 0
    /\ UNCHANGED <<students, departure_hour, departure_minute, departure_date,
                   progress_bar, service, now>>

NextDet == Query \/ Respond \/ Return \/ Tick \/ Reinvoke

SpecDet == InitDet /\ [][NextDet]_vars

-----------------------------------------------------------------------------
(* A bare call of get_departure_timestamp *)

ResolveNows ==
    {DateTime(1, 0, 0, 0, 0), DateTime(1, 7, 59, 59, 999999), DateTime(1, 8, 0, 0, 0),
     DateTime(1, 8, 0, 0, 1), DateTime(1, 8, 0, 59, 0), DateTime(1, 23, 59, 59, 999999)}

ResolveDates == {None, Some(0), Some(1), Some(2)}

InitResolve ==
    /\ students = <<>>
    /\ departure_hour \in {Some(h) : h \in Hours}
    /\ departure_minute \in Minutes
    /\ departure_date \in ResolveDates
    /\ progress_bar = FALSE
    /\ service = AnyService
    /\ now \in ResolveNows
    /\ run = 1
    /\ firstResult = <<>>
    /\ firstQueries = <<>>
    /\ pc = "resolve"
    /\ batch_idx = 0
    /\ params = NoParams
    /\ results = <<>>
    /\ ts = None
    /\ queries = <<>>
    /\ responses = <<>>
    /\ appended = <<>>
    /\ progress = <<>>
    /\ diagnostics = <<>>
    /\ clockReads = 0

\* lines 18-27: get_departure_timestamp(hour, minute, date)
Resolve ==
    /\ pc = "resolve"
    /\ ts' = Some(get_departure_timestamp(departure_hour[1], departure_minute,
                                          departure_date, now))
    /\ clockReads' = IF ReadsClock(departure_date) THEN clockReads + 1 ELSE clockReads
    /\ pc' = "resolved"
    /\ UNCHANGED <<students, departure_hour, departure_minute, departure_date,
                   progress_bar, service, now, batch_idx, params, results, run,
                   firstResult, firstQueries, queries, responses, appended, progress,
                   diagnostics>>

NextResolve == Resolve

SpecResolve == InitResolve /\ [][NextResolve]_vars

-----------------------------------------------------------------------------
(* Properties *)

\* ceil(n / 25) for the roster, stated without the code's formula
NumBatches ==
    CHOOSE k \in 0..Len(students) :
        /\ k * batch_size >= Len(students)
        /\ k = 0 \/ (k - 1) * batch_size < Len(students)

\* the b-th batch of the roster (b from 1): its offset, its size, its k-th student
OffsetOf(b) == (b - 1) * batch_size
SizeOf(b) == Min(batch_size, Len(students) - OffsetOf(b))
StudentOf(b, k) == students[OffsetOf(b) + k]

\* the origin list a request carries
OriginsOf(q) == SelectSeq(q.origins, LAMBDA x : x # "|")

AllOK == \A b \in 1..Len(responses) : responses[b].status = "OK"

ExpectedRow(st, el) ==
    IF el.status = "OK"
    THEN [name |-> st.name, addr |-> st.addr,
          distance |-> el.distance.text, distance_m |-> <<el.distance.value>>,
          duration |-> el.duration.text, duration_min |-> <<el.duration.value \div 60>>]
    ELSE [name |-> st.name, addr |-> st.addr,
          distance |-> <<"error: ", el.status>>, distance_m |-> <<>>,
          duration |-> <<"error: ", el.status>>, duration_min |-> <<>>]

\* the rows of the first b handled batches whose top-level status was "OK"
RECURSIVE ExpectedTable(_)
ExpectedTable(b) ==
    IF b = 0 THEN <<>>
    ELSE ExpectedTable(b - 1) \o
         (IF responses[b].status = "OK"
          THEN [k \in 1..SizeOf(b) |->
                   ExpectedRow(StudentOf(b, k), responses[b].rows[k].elements[1])]
          ELSE <<>>)

Failed == {b \in 1..Len(responses) : responses[b].status # "OK"}

\* C1: the table never has more rows than the roster, and the returned table has
\* exactly len(students) rows iff every batch's response had top-level status "OK".
C1_ResultLength ==
    /\ Len(results) <= Len(students)
    /\ pc = "done" => (Len(results) = Len(students) <=> AllOK)

C1_Witness ==
    /\ pc = "done"
    /\ Len(students) = 2 * batch_size + 1
    /\ Failed = {2}
    /\ Len(results) = batch_size + 1

\* C2: a batch whose response is "OK" contributes exactly len(batch) rows, and its
\* k-th row carries the name and address of the k-th student of that batch.
C2_BatchRowsPositional ==
    \A b \in 1..Len(appended) :
        responses[b].status = "OK" =>
            /\ Len(appended[b]) = SizeOf(b)
            /\ \A k \in 1..Len(appended[b]) :
                  /\ appended[b][k].name = StudentOf(b, k).name
                  /\ appended[b][k].addr = StudentOf(b, k).addr

C2_Witness ==
    /\ Len(appended) = 2
    /\ Len(students) = batch_size + 2
    /\ responses[2].status = "OK"
    /\ Len(appended[2]) = 2
    /\ appended[2][2].name = batch_size + 2

\* C3: in an "OK" batch an element whose status is not "OK" still yields exactly one
\* row for its student, with name and address, both text fields set to the error
\* marker of that status and both numeric fields null; "OK" elements of the same
\* batch yield rows with populated numeric fields.
C3_ElementFailureKept ==
    \A b \in 1..Len(appended) :
        responses[b].status = "OK" =>
            /\ Len(appended[b]) = Len(responses[b].rows)
            /\ \A k \in 1..Len(responses[b].rows) :
                  LET el  == responses[b].rows[k].elements[1]
                      row == appended[b][k]
                  IN  /\ row.name = StudentOf(b, k).name
                      /\ row.addr = StudentOf(b, k).addr
                      /\ IF el.status # "OK"
                         THEN /\ row.distance = <<"error: ", el.status>>
                              /\ row.duration = <<"error: ", el.status>>
                              /\ row.distance_m = <<>>
                              /\ row.duration_min = <<>>
                         ELSE /\ row.distance_m = <<el.distance.value>>
                              /\ row.duration_min = <<el.duration.value \div 60>>

C3_Witness ==
    /\ pc = "done"
    /\ Len(students) = 3
    /\ Len(results) = 3
    /\ results[1].duration_min = <<1>>
    /\ results[2].distance = <<"error: ", "NOT_FOUND">>
    /\ results[2].distance_m = <<>>
    /\ results[2].duration_min = <<>>
    /\ results[2].name = 2
    /\ results[3].distance_m = <<1200>>

\* C4: a batch whose top-level status is not "OK" contributes zero rows and records
\* one diagnostic, the loop goes on to the next batch, and the returned table is
\* exactly the rows of the "OK" batches in batch order.
C4_BatchFailureSkipped ==
    /\ \A b \in Failed : appended[b] = <<>>
    /\ Len(diagnostics) = Cardinality(Failed)
    /\ \A d \in 1..Len(diagnostics) : diagnostics[d].status \in TopErrors
    /\ pc \in {"loop", "done"} => results = ExpectedTable(Len(responses))
    /\ pc = "done" => Len(responses) = NumBatches

C4_Witness ==
    /\ pc = "done"
    /\ Len(students) = batch_size + 3
    /\ Failed = {1}
    /\ Len(diagnostics) = 1
    /\ Len(results) = 3
    /\ results[1].name = batch_size + 1

\* C5: exactly ceil(n/25) queries are issued, one per batch, one after another and
\* never repeated; each carries at most 25 origins, only the last may carry fewer,
\* and the origin lists in issue order concatenate to the roster's address list.
C5_QueriesPartitionRoster ==
    /\ Len(queries) <= NumBatches
    /\ Len(queries) = Len(responses) + (IF pc = "sent" THEN 1 ELSE 0)
    /\ pc = "done" => Len(queries) = NumBatches
    /\ \A b \in 1..Len(queries) :
          LET origins == OriginsOf(queries[b])
          IN  /\ Len(origins) <= batch_size
              /\ b < NumBatches => Len(origins) = batch_size
              /\ Len(origins) = SizeOf(b)
              /\ \A k \in 1..Len(origins) : origins[k] = StudentOf(b, k).addr

C5_Witness ==
    /\ pc = "done"
    /\ Len(students) = 2 * batch_size + 1
    /\ Len(queries) = 3
    /\ Len(OriginsOf(queries[3])) = 1
    /\ Failed = {1, 3}

\* C6: with a progress observer, it is invoked exactly once per batch whatever the
\* batch's outcome, with batchesCompleted / totalBatches: the values are strictly
\* increasing, lie in (0, 1], and number as many as the batches handled.
C6_ProgressOncePerBatch ==
    progress_bar =>
        /\ Len(progress) = Len(responses)
        /\ \A k \in 1..Len(progress) :
              /\ progress[k].num = k
              /\ progress[k].den = NumBatches
              /\ 0 < progress[k].num /\ progress[k].num <= progress[k].den

\* C7: with a departure specification the timestamp is resolved once per run (the
\* clock is read at most once) and every query of the run carries the same timestamp.
C7_SingleDepartureResolution ==
    /\ clockReads <= 1
    /\ \A a, b \in 1..Len(queries) :
          queries[a].departure_time = queries[b].departure_time

\* C8: no exception reaches the caller: every batch of the roster is processed and
\* the call ends by returning a table, whatever the statuses in the responses.
C8_NoExceptionRunsToCompletion ==
    /\ pc # "raised"
    /\ pc \in {"loop", "sent", "done"}
    /\ pc = "loop" => batch_idx <= NumBatches
    /\ pc = "sent" => batch_idx < NumBatches /\ Answers(service, params) # {}
    /\ pc = "done" => /\ Len(responses) = NumBatches
                      /\ Len(diagnostics) = Cardinality(Failed)
                      /\ \A b \in 1..NumBatches :
                            responses[b].status = "OK" => Len(appended[b]) = SizeOf(b)

C8_Witness ==
    /\ pc = "done"
    /\ progress_bar
    /\ Len(students) = 2 * batch_size + 1
    /\ Failed = {1}
    /\ results[1].distance = <<"error: ", "ZERO_RESULTS">>
    /\ results[2].distance = <<"error: ", "NOT_FOUND">>

\* C9: with no date the result is today's hour:minute:00 if that is strictly after
\* now and one calendar day later otherwise, so it is strictly after now and at most
\* one day after it; with a date it is exactly that date at hour:minute:00.
C9_ResolveNextOccurrence ==
    pc = "resolved" =>
        LET h     == departure_hour[1]
            m     == departure_minute
            nowS  == now.day * 86400 + now.hour * 3600 + now.minute * 60 + now.second
            today == now.day * 86400 + h * 3600 + m * 60
        IN  IF departure_date = <<>>
            THEN /\ ts = <<IF today > nowS THEN today ELSE today + 86400>>
                 /\ ts[1] > nowS
                 /\ ts[1] - 86400 <= nowS
            ELSE ts = <<departure_date[1] * 86400 + h * 3600 + m * 60>>

C9_Witness ==
    /\ pc = "resolved"
    /\ departure_date = <<>>
    /\ departure_hour = <<8>>
    /\ departure_minute = 0
    /\ now = DateTime(1, 8, 0, 0, 0)
    /\ ts = <<2 * 86400 + 8 * 3600>>

\* C10 as stated: against a deterministic capability, two invocations with identical
\* arguments return identical tables, also when the date is omitted and they run at
\* different wall-clock times.
C10_Idempotent ==
    pc = "done" /\ run = 2 => results = firstResult

SameDeparture ==
    \A q1, q2 \in {queries[i] : i \in 1..Len(queries)}
                     \cup {firstQueries[i] : i \in 1..Len(firstQueries)} :
        q1.departure_time = q2.departure_time

\* C10 as amended: against a deterministic capability, two invocations with identical
\* arguments return identical tables when no departure hour is requested or the date
\* is given, and, with the date omitted, whenever all queries of both invocations
\* resolved the same departure timestamp.
C10_IdempotentFixedDeparture ==
    pc = "done" /\ run = 2 =>
        /\ departure_hour = <<>> \/ departure_date # <<>> => results = firstResult
        /\ SameDeparture => results = firstResult

C10_Witness ==
    /\ pc = "done"
    /\ run = 2
    /\ departure_hour = <<8>>
    /\ departure_date = <<0>>
    /\ now = DateTime(0, 8, 0, 0, 0)
    /\ Len(firstQueries) = 2
    /\ firstQueries[1].departure_time = <<T0>>
    /\ Len(results) = 1
    /\ results = firstResult

====
